---- MODULE Spec2Model ----
(***************************************************************************)
(* A model of the comment server: the storage schema and the projection /  *)
(* pagination engine of src/database/ddl.py, and the request dispatcher    *)
(* and write gateway of src/handles.py.                                    *)
(*                                                                         *)
(* Values.  A Python None and an SQL NULL are the empty tuple <<>>; a      *)
(* present value v is the one-element tuple <<v>> wherever a value may be  *)
(* absent (nullable columns, optional parameters).  A Python exception is  *)
(* the record [kind |-> "raise", exc |-> <class name>], a normal return    *)
(* [kind |-> "ok", value |-> v].                                           *)
(***************************************************************************)
EXTENDS Integers, Sequences, FiniteSets, TLC

VARIABLES
    store,      \* the COMMENT table: a set of rows
    qcall,      \* the last direct call of the projection engine and its outcome
    scan,       \* a client reading a listing page by page: its call, the pages so far
    pc,         \* per request task: "idle", "auth", "wait" or "done"
    body,       \* per request task: the decoded request body
    idx,        \* per request task: the position of the envelope in hand
    resps,      \* per request task: the response envelopes built so far
    hlog,       \* per request task: what the dispatcher logged for each envelope
    authorized, \* per request task: the local `authorized` of the delete in hand
    http,       \* per request task: the HTTP response returned
    pending,    \* the scheduler's queue of units of work not yet started
    active,     \* the units of work started and not yet finished
    jobres      \* per request task: the outcome of its finished job

vars == <<store, qcall, scan, pc, body, idx, resps, hlog, authorized, http,
          pending, active, jobres>>

None == <<>>
Some(v) == <<v>>

Ok(v) == [kind |-> "ok", value |-> v]
Raise(e) == [kind |-> "raise", exc |-> e]

(***************************************************************************)
(* Bounds of the model.                                                    *)
(***************************************************************************)
MaxPage == 3
MaxPageSize == 3
MaxFieldList == 2
NReq == 2
MaxBatch == 2

(***************************************************************************)
(* Storage schema.                                                         *)
(***************************************************************************)
\* The CHANNEL table (claim_id -> name); channels are created out of band.
Channel == [ch1 |-> "@a", ch2 |-> "@b"]

ChannelIds == DOMAIN Channel

\* The rows a client may hold in the COMMENT table: one record per column of
\* the Comment model.  c2 is an anonymous, unsigned reply to c1; c2 and c3
\* share a timestamp; c4 carries the signature of c1; c5 is c1's id posted
\* again with other content.
CommentRows ==
    { [comment_id |-> "c1", comment |-> "first", claim_id |-> "k1",
       channel |-> Some("ch1"), parent |-> None, signature |-> Some("s1"),
       signing_ts |-> Some("t1"), is_hidden |-> FALSE, timestamp |-> 100],
      [comment_id |-> "c2", comment |-> "reply", claim_id |-> "k1",
       channel |-> None, parent |-> Some("c1"), signature |-> None,
       signing_ts |-> None, is_hidden |-> FALSE, timestamp |-> 200],
      [comment_id |-> "c3", comment |-> "third", claim_id |-> "k1",
       channel |-> Some("ch2"), parent |-> None, signature |-> Some("s3"),
       signing_ts |-> Some("t3"), is_hidden |-> TRUE, timestamp |-> 200],
      [comment_id |-> "c4", comment |-> "replay", claim_id |-> "k2",
       channel |-> Some("ch1"), parent |-> None, signature |-> Some("s1"),
       signing_ts |-> Some("t1"), is_hidden |-> FALSE, timestamp |-> 300],
      [comment_id |-> "c1", comment |-> "again", claim_id |-> "k2",
       channel |-> Some("ch2"), parent |-> None, signature |-> Some("s5"),
       signing_ts |-> None, is_hidden |-> FALSE, timestamp |-> 300] }

CommentIds == {r.comment_id : r \in CommentRows}

\* The constraints of the Comment model: comment_id is the primary key and a
\* non-null signature is unique.
PrimaryKeyFree(st, row) == \A r \in st : r.comment_id # row.comment_id

SignatureFree(st, row) ==
    row.signature = None \/ \A r \in st : r.signature # row.signature

SchemaValid(st) ==
    \A r \in st : /\ PrimaryKeyFree(st \ {r}, r)
                  /\ SignatureFree(st \ {r}, r)

\* The columns of the Comment model, by field name.
CommentColumns ==
    {"comment", "channel", "comment_id", "is_hidden", "claim_id", "parent",
     "signature", "signing_ts", "timestamp"}

\* The field registry: its keys.
FIELDS ==
    {"comment", "comment_id", "claim_id", "timestamp", "signature",
     "signing_ts", "is_hidden", "parent_id", "channel_id", "channel_name",
     "channel_url"}

\* The Channel row the left outer join gives a comment: None for an anonymous
\* comment (or a channel id the CHANNEL table does not hold).
JoinChannel(row) ==
    IF row.channel # None /\ row.channel[1] \in ChannelIds
    THEN Some([claim_id |-> row.channel[1], name |-> Channel[row.channel[1]]])
    ELSE None

\* The cell (None for NULL) a selected column holds for a row: the expression
\* the registry maps the name to, or the model's own column.
Cell(name, row) ==
    LET ch == JoinChannel(row) IN
    CASE name = "comment"      -> Some(row.comment)
      [] name = "comment_id"   -> Some(row.comment_id)
      [] name = "claim_id"     -> Some(row.claim_id)
      [] name = "timestamp"    -> Some(row.timestamp)
      [] name = "signature"    -> row.signature
      [] name = "signing_ts"   -> row.signing_ts
      [] name = "is_hidden"    -> Some(row.is_hidden)
      [] name = "parent_id"    -> row.parent
      [] name = "parent"       -> row.parent
      [] name = "channel"      -> row.channel
      [] name = "channel_id"   -> IF ch = None THEN None ELSE Some(ch[1].claim_id)
      [] name = "channel_name" -> IF ch = None THEN None ELSE Some(ch[1].name)
      [] name = "channel_url"  ->
            IF ch = None THEN None
            ELSE Some("lbry://" \o ch[1].name \o "#" \o ch[1].claim_id)

(***************************************************************************)
(* The projection / pagination engine.                                     *)
(***************************************************************************)
\* Python truthiness of an optional string and of an optional list.
TruthyStr(o) == o # None /\ o[1] # ""
TruthyList(o) == o # None /\ o[1] # {}

\* str.lower() on the exclusion modes the model sends.
Lower(s) ==
    CASE s = "HIDDEN" -> "hidden"
      [] s = "Hidden" -> "hidden"
      [] OTHER -> s

\* The arguments of comment_list and their defaults.  select_fields and
\* exclude_fields hold the set of the names listed; expressions is the extra
\* predicate: none, comment_id == ids[1], or comment_id IN ids.
DefaultArgs ==
    [claim_id |-> None, parent_id |-> None, top_level |-> FALSE,
     exclude_mode |-> None, page |-> 1, page_size |-> 50,
     expressions |-> [op |-> "none", ids |-> <<>>],
     select_fields |-> None, exclude_fields |-> None]

Range(s) == {s[i] : i \in DOMAIN s}

\* The surviving registry keys: exclusion is subtracted, then inclusion
\* intersects; an empty (falsy) list does neither.
SelectedFields(a) ==
    LET f1 == IF TruthyList(a.exclude_fields)
              THEN FIELDS \ a.exclude_fields[1] ELSE FIELDS
    IN  IF TruthyList(a.select_fields) THEN f1 \cap a.select_fields[1] ELSE f1

\* Comment.select(*attributes): with no attribute at all the query selects
\* every column of the Comment model.
Select(fields) == IF fields = {} THEN CommentColumns ELSE fields

Matches(expr, row) ==
    CASE expr.op = "none" -> TRUE
      [] expr.op = "eq"   -> row.comment_id = expr.ids[1]
      [] expr.op = "in"   -> row.comment_id \in Range(expr.ids)

\* Mutant: the clause on Comment.parent.is_null() is missing.
WhereAnyLevel(st, a) ==
    LET q1 == IF TruthyStr(a.claim_id)
              THEN {r \in st : r.claim_id = a.claim_id[1]}
              ELSE st
        q2 == IF TruthyStr(a.parent_id)
              THEN {r \in q1 : r.parent = a.parent_id} ELSE q1
        q3 == IF TruthyStr(a.exclude_mode)
              THEN {r \in q2 :
                      r.is_hidden = (Lower(a.exclude_mode[1]) = "hidden")}
              ELSE q2
    IN  {r \in q3 : Matches(a.expressions, r)}

\* The chain of where() clauses.
Where(st, a) ==
    LET q1 == IF TruthyStr(a.claim_id)
              THEN LET c == {r \in st : r.claim_id = a.claim_id[1]}
                   IN  IF a.top_level THEN {r \in c : r.parent = None} ELSE c
              ELSE st
        q2 == IF TruthyStr(a.parent_id)
              THEN {r \in q1 : r.parent = a.parent_id} ELSE q1
        q3 == IF TruthyStr(a.exclude_mode)
              THEN {r \in q2 :
                      r.is_hidden = (Lower(a.exclude_mode[1]) = "hidden")}
              ELSE q2
    IN  {r \in q3 : Matches(a.expressions, r)}

\* Mutant: the rows are counted after an inner join with CHANNEL.
CountJoined(q) == Cardinality({r \in q : r.channel # None})

\* query.count(), on the filtered query before the join.
Count(q) == Cardinality(q)

\* order_by(timestamp.desc()): every order of the rows the engine may return,
\* rows of equal timestamp in either order.
OrderBy(q) ==
    {s \in [1..Cardinality(q) -> q] :
        /\ \A i, j \in DOMAIN s : i # j => s[i] # s[j]
        /\ \A i, j \in DOMAIN s : i < j => s[i].timestamp >= s[j].timestamp}

\* paginate(page, page_size): LIMIT page_size OFFSET (page - 1) * page_size,
\* page 0 being page 1.
Paginate(s, page, page_size) ==
    LET p == IF page > 0 THEN page - 1 ELSE page
        offset == p * page_size
        last == IF offset + page_size < Len(s) THEN offset + page_size ELSE Len(s)
    IN  SubSeq(s, offset + 1, last)

\* query.dicts(): one row as a dict over the selected columns, a NULL cell
\* being None.
Dicts(cols, row) == [k \in cols |-> Cell(k, row)]

\* clean(thing): the keys whose value is not None, with their values.
clean(thing) ==
    [k \in {c \in DOMAIN thing : thing[c] # None} |-> thing[k][1]]

\* math.ceil(total / page_size), page_size > 0.
Ceil(total, page_size) == (total + page_size - 1) \div page_size

\* comment_list on store st: the set of its possible outcomes, one for each
\* order the engine may give rows of equal timestamp.
comment_list(st, a) ==
    LET cols == Select(SelectedFields(a))
        q == Where(st, a)
        total == Count(q)
    IN  IF a.page_size = 0
        THEN {Raise("ZeroDivisionError")}
        ELSE {Ok([page |-> a.page,
                  page_size |-> a.page_size,
                  total_pages |-> Ceil(total, a.page_size),
                  total_items |-> total,
                  items |-> [i \in DOMAIN Paginate(s, a.page, a.page_size) |->
                               clean(Dicts(cols, Paginate(s, a.page, a.page_size)[i]))],
                  has_hidden_comments |-> a.exclude_mode = Some("hidden")])
              : s \in OrderBy(q)}

\* list.pop() on the items of an outcome: IndexError on an empty list.
PopItem(o) ==
    IF o.kind = "raise" THEN o
    ELSE IF o.value.items = <<>> THEN Raise("IndexError")
    ELSE Ok(o.value.items[Len(o.value.items)])

get_comment(st, comment_id) ==
    {PopItem(o) : o \in comment_list(st,
        [DefaultArgs EXCEPT !.expressions = [op |-> "eq", ids |-> <<comment_id>>],
                            !.page_size = 1])}

\* results.update(...) of the flattened mode: items become the ids, replies
\* the (comment_id, parent_id) pairs, parent_id None where the item has none.
Flatten(v) ==
    [page |-> v.page, page_size |-> v.page_size, total_pages |-> v.total_pages,
     total_items |-> v.total_items,
     has_hidden_comments |-> v.has_hidden_comments,
     items |-> [i \in DOMAIN v.items |-> v.items[i].comment_id],
     replies |-> [i \in DOMAIN v.items |->
                    <<v.items[i].comment_id,
                      IF "parent_id" \in DOMAIN v.items[i]
                      THEN Some(v.items[i].parent_id) ELSE None>>]]

get_comment_ids(st, claim_id, parent_id, page, page_size, flattened) ==
    {IF flattened /\ o.kind = "ok" THEN Ok(Flatten(o.value)) ELSE o :
        o \in comment_list(st,
            [DefaultArgs EXCEPT !.claim_id = claim_id, !.parent_id = parent_id,
                                !.top_level = (parent_id = None),
                                !.page = page, !.page_size = page_size,
                                !.select_fields = Some({"comment_id", "parent_id"})])}

get_comments_by_id(st, comment_ids) ==
    comment_list(st,
        [DefaultArgs EXCEPT !.expressions = [op |-> "in", ids |-> comment_ids],
                            !.page_size = Len(comment_ids)])

get_channel_from_comment_id(st, comment_id) ==
    {PopItem(o) : o \in comment_list(st,
        [DefaultArgs EXCEPT !.expressions = [op |-> "eq", ids |-> <<comment_id>>],
                            !.select_fields =
                                Some({"channel_name", "channel_id", "channel_url"}),
                            !.page_size = 1])}

\* src.database.get_claim_comments: the listing of a claim's comments.
get_claim_comments(st, claim_id, parent_id, top_level, exclude_mode, page, page_size) ==
    comment_list(st,
        [DefaultArgs EXCEPT !.claim_id = claim_id, !.parent_id = parent_id,
                            !.top_level = top_level, !.exclude_mode = exclude_mode,
                            !.page = page, !.page_size = page_size])

(***************************************************************************)
(* The write path: the units of work and the single writer.                *)
(***************************************************************************)
\* The scheduler runs at most this many units at a time.
WriterLimit == 1

\* Mutant: the signature column is not unique.
InsertCommentAnySignature(st, row) ==
    IF PrimaryKeyFree(st, row)
    THEN [outcome |-> Ok(clean(Dicts(FIELDS, row))), store |-> st \cup {row}]
    ELSE [outcome |-> Raise("IntegrityError"), store |-> st]

\* INSERT into COMMENT under the constraints of the Comment model.
InsertComment(st, row) ==
    IF PrimaryKeyFree(st, row) /\ SignatureFree(st, row)
    THEN [outcome |-> Ok(clean(Dicts(FIELDS, row))), store |-> st \cup {row}]
    ELSE [outcome |-> Raise("IntegrityError"), store |-> st]

CreateRequired == {"comment", "claim_id"}
CreateOptional == {"channel_id", "channel_name", "signature", "signing_ts", "parent_id"}

\* The keyword arguments that create the row.
CreateParams(row) ==
    LET keys == CreateRequired
                \cup (IF row.channel = None THEN {} ELSE {"channel_id", "channel_name"})
                \cup (IF row.signature = None THEN {} ELSE {"signature"})
                \cup (IF row.signing_ts = None THEN {} ELSE {"signing_ts"})
                \cup (IF row.parent = None THEN {} ELSE {"parent_id"})
    IN  [k \in keys |->
            CASE k = "comment"      -> row.comment
              [] k = "claim_id"     -> row.claim_id
              [] k = "channel_id"   -> row.channel[1]
              [] k = "channel_name" -> Channel[row.channel[1]]
              [] k = "signature"    -> row.signature[1]
              [] k = "signing_ts"   -> row.signing_ts[1]
              [] k = "parent_id"    -> row.parent[1]]

\* The row a create inserts: the server derives comment_id and timestamp from
\* the input, and a new comment is not hidden.
NewRow(kw) ==
    LET r == CHOOSE r \in CommentRows : CreateParams(r) = kw
    IN  [r EXCEPT !.is_hidden = FALSE]

\* src.writes.create_comment_or_error(writer, **comment): a TypeError on
\* arguments that do not bind, a validation error on a malformed (empty)
\* body, the insert otherwise.
create_comment_or_error(st, kw) ==
    IF ~(CreateRequired \subseteq DOMAIN kw)
       \/ ~(DOMAIN kw \subseteq CreateRequired \cup CreateOptional)
    THEN [outcome |-> Raise("TypeError"), store |-> st]
    ELSE IF kw.comment = ""
    THEN [outcome |-> Raise("ValueError"), store |-> st]
    ELSE InsertComment(st, NewRow(kw))

\* src.database.delete_channel_comment_by_id(writer, comment_id, channel_id):
\* DELETE ... WHERE CommentId = ? AND ChannelId = ?, true when a row went.
delete_channel_comment_by_id(st, comment_id, channel_id) ==
    LET gone == {r \in st : r.comment_id = comment_id /\ r.channel = Some(channel_id)}
    IN  [outcome |-> Ok(gone # {}), store |-> st \ gone]

\* What a unit of work does to the store when the writer runs it.
RunUnit(st, u) ==
    IF u.kind = "create" THEN create_comment_or_error(st, u.kw)
    ELSE delete_channel_comment_by_id(st, u.kw.comment_id, u.kw.channel_id)

\* scheduler.spawn(unit): started at once while a slot is free, queued otherwise.
Spawn(u) ==
    IF Cardinality(active) < WriterLimit
    THEN active' = active \cup {u} /\ pending' = pending
    ELSE pending' = Append(pending, u) /\ active' = active

(***************************************************************************)
(* The dispatcher.                                                         *)
(***************************************************************************)
METHODS ==
    {"ping", "get_claim_comments", "get_comment_ids", "get_comments_by_id",
     "get_channel_from_comment_id", "create_comment", "delete_comment"}

\* asyncio.iscoroutinefunction(METHODS[method])
IsCoroutine(method) == method \in {"create_comment", "delete_comment"}

\* Binding **kwargs to a signature: every required name given, no other name
\* than the signature's.
Binds(kw, required, optional) ==
    /\ required \subseteq DOMAIN kw
    /\ DOMAIN kw \subseteq required \cup optional

Arg(kw, k, default) == IF k \in DOMAIN kw THEN kw[k] ELSE default
OptArg(kw, k) == IF k \in DOMAIN kw THEN Some(kw[k]) ELSE None

ping(kw) == {Ok("pong")}

handle_get_channel_from_comment_id(st, kw) ==
    IF Binds(kw, {"comment_id"}, {})
    THEN get_channel_from_comment_id(st, kw.comment_id)
    ELSE {Raise("TypeError")}

handle_get_comment_ids(st, kw) ==
    IF Binds(kw, {}, {"claim_id", "parent_id", "page", "page_size", "flattened"})
    THEN get_comment_ids(st, OptArg(kw, "claim_id"), OptArg(kw, "parent_id"),
                         Arg(kw, "page", 1), Arg(kw, "page_size", 50),
                         Arg(kw, "flattened", FALSE))
    ELSE {Raise("TypeError")}

handle_get_claim_comments(st, kw) ==
    IF Binds(kw, {"claim_id"},
             {"parent_id", "top_level", "exclude_mode", "page", "page_size"})
    THEN get_claim_comments(st, Some(kw.claim_id), OptArg(kw, "parent_id"),
                            Arg(kw, "top_level", FALSE), OptArg(kw, "exclude_mode"),
                            Arg(kw, "page", 1), Arg(kw, "page_size", 50))
    ELSE {Raise("TypeError")}

handle_get_comments_by_id(st, kw) ==
    IF Binds(kw, {"comment_ids"}, {})
    THEN get_comments_by_id(st, kw.comment_ids)
    ELSE {Raise("TypeError")}

\* The outcomes of a handler that does not suspend.
SyncHandler(st, method, kw) ==
    CASE method = "ping" -> ping(kw)
      [] method = "get_claim_comments" -> handle_get_claim_comments(st, kw)
      [] method = "get_comment_ids" -> handle_get_comment_ids(st, kw)
      [] method = "get_comments_by_id" -> handle_get_comments_by_id(st, kw)
      [] method = "get_channel_from_comment_id" ->
            handle_get_channel_from_comment_id(st, kw)

DeleteArgs == {"comment_id", "channel_name", "channel_id", "signature"}

\* Mutant: the except clause for ValueError is missing.
ClassifyTypeErrorOnly(exc) ==
    CASE exc = "TypeError"  -> "INVALID_PARAMS"
      [] OTHER              -> "INTERNAL"

\* The except clauses of process_json.
Classify(exc) ==
    CASE exc = "TypeError"  -> "INVALID_PARAMS"
      [] exc = "ValueError" -> "INVALID_PARAMS"
      [] OTHER              -> "INTERNAL"

ResultEnvelope(id, v) == [jsonrpc |-> "2.0", id |-> id, result |-> v]
ErrorEnvelope(id, e) == [jsonrpc |-> "2.0", id |-> id, error |-> e]

\* Mutant: the result key is set before the handler is called and stays in an
\* error response.
RespondKeepingResult(id, o) ==
    IF o.kind = "ok" THEN ResultEnvelope(id, o.value)
    ELSE [jsonrpc |-> "2.0", id |-> id, result |-> None, error |-> Classify(o.exc)]

\* The response of process_json to a handler's outcome.
Respond(id, o) ==
    IF o.kind = "ok" THEN ResultEnvelope(id, o.value)
    ELSE ErrorEnvelope(id, Classify(o.exc))

\* What the dispatcher records of an envelope: its method, how its handler
\* ended ("unregistered" when none ran), and what the authenticity predicate
\* returned, if it was asked.
LogEntry(method, o, auth) ==
    [method |-> method,
     outcome |-> IF o.kind = "ok" THEN "ok" ELSE o.exc,
     authorized |-> auth]

Unregistered(method) ==
    [method |-> method, outcome |-> "unregistered", authorized |-> None]

\* body['id'] and body['method'] succeed.
WellFormed(part) ==
    part.kind = "object" /\ part.id # None /\ part.method # None

\* The exception body['id'] or body['method'] raises on another part.
Malformation(part) == IF part.kind = "object" THEN "KeyError" ELSE "TypeError"

\* The parts of a decoded body: the elements of a batch, or the one envelope.
Parts(b) == IF b.kind = "array" THEN b.parts ELSE <<b.value>>

\* A request task runs without interruption from envelope i on, until it must
\* wait (for the authenticity predicate of a delete, for the job of a create),
\* has answered every envelope, or an exception leaves process_json.  Where it
\* stops, with the responses and log so far; one outcome for each outcome its
\* reads may have.
\* Mutant: every handler is run as a job of the scheduler.
RunPartsAllSpawned(st, parts, i, acc, lg) ==
    IF i > Len(parts)
    THEN {[stop |-> "end", idx |-> i, resps |-> acc, hlog |-> lg, exc |-> ""]}
    ELSE {[stop |-> "create", idx |-> i, resps |-> acc, hlog |-> lg, exc |-> ""]}

RECURSIVE RunParts(_, _, _, _, _)
RunParts(st, parts, i, acc, lg) ==
    IF i > Len(parts)
    THEN {[stop |-> "end", idx |-> i, resps |-> acc, hlog |-> lg, exc |-> ""]}
    ELSE
    LET part == parts[i] IN
    IF ~WellFormed(part)
    THEN {[stop |-> "raise", idx |-> i, resps |-> acc, hlog |-> lg,
           exc |-> Malformation(part)]}
    ELSE
    LET id == part.id[1]
        method == part.method[1]
        kw == part.params
    IN
    IF method \notin METHODS
    THEN RunParts(st, parts, i + 1,
                  Append(acc, ErrorEnvelope(id, "METHOD_NOT_FOUND")),
                  Append(lg, Unregistered(method)))
    ELSE IF ~IsCoroutine(method)
    THEN UNION {RunParts(st, parts, i + 1, Append(acc, Respond(id, o)),
                         Append(lg, LogEntry(method, o, None)))
                : o \in SyncHandler(st, method, kw)}
    ELSE IF method = "create_comment"
    THEN {[stop |-> "create", idx |-> i, resps |-> acc, hlog |-> lg, exc |-> ""]}
    ELSE IF Binds(kw, DeleteArgs, {})
    THEN {[stop |-> "auth", idx |-> i, resps |-> acc, hlog |-> lg, exc |-> ""]}
    ELSE RunParts(st, parts, i + 1,
                  Append(acc, Respond(id, Raise("TypeError"))),
                  Append(lg, LogEntry(method, Raise("TypeError"), None)))

\* web.json_response(content): `array` tells a batch response from an object.
JsonResponse(array, content) ==
    [kind |-> "json", array |-> array, content |-> content]

HasResult(e) == "result" \in DOMAIN e

\* Mutant: a batch response keeps only the envelopes that carry a result.
EndResponseResultsOnly(b, rs) ==
    IF b.kind = "array" THEN JsonResponse(TRUE, SelectSeq(rs, HasResult))
    ELSE JsonResponse(FALSE, rs[1])

\* The response to a body processed to its end: the list of the responses of
\* a batch, the one response of a single envelope.
EndResponse(b, rs) ==
    IF b.kind = "array" THEN JsonResponse(TRUE, rs) ELSE JsonResponse(FALSE, rs[1])

\* Mutant: only the decoding error is caught; any other exception leaves
\* api_endpoint.
OnDecodeErrorOnly(exc) ==
    IF exc = "JSONDecodeError"
    THEN JsonResponse(FALSE, [error |-> "PARSE_ERROR"])
    ELSE [kind |-> "fault", exc |-> exc]

\* The except clauses of api_endpoint.
OnException(exc) ==
    IF exc = "JSONDecodeError"
    THEN JsonResponse(FALSE, [error |-> "PARSE_ERROR"])
    ELSE JsonResponse(FALSE, [error |-> "INVALID_REQUEST"])

\* Mutant: an exception out of process_json ends the batch with the responses
\* built so far.
HttpOfPartial(b, s) ==
    CASE s.stop = "end"    -> Some(EndResponse(b, s.resps))
      [] s.stop = "raise"  -> IF b.kind = "array" /\ s.resps # <<>>
                              THEN Some(JsonResponse(TRUE, s.resps))
                              ELSE Some(OnException(s.exc))
      [] s.stop = "scalar" -> Some(JsonResponse(FALSE, [error |-> "INVALID_REQUEST"]))
      [] OTHER             -> None

\* The HTTP response once the task has stopped at s; None while it waits.
HttpOf(b, s) ==
    CASE s.stop = "end"    -> Some(EndResponse(b, s.resps))
      [] s.stop = "raise"  -> Some(OnException(s.exc))
      [] s.stop = "scalar" -> Some(JsonResponse(FALSE, [error |-> "INVALID_REQUEST"]))
      [] OTHER             -> None

\* Where api_endpoint first stops on body b.
Stops(st, b) ==
    CASE b.kind = "undecodable" ->
            {[stop |-> "raise", idx |-> 0, resps |-> <<>>, hlog |-> <<>>,
              exc |-> "JSONDecodeError"]}
      [] b.kind = "scalar" ->
            {[stop |-> "scalar", idx |-> 0, resps |-> <<>>, hlog |-> <<>>,
              exc |-> ""]}
      [] OTHER -> RunParts(st, Parts(b), 1, <<>>, <<>>)

Unit(r, i, kind, kw) == [owner |-> r, idx |-> i, kind |-> kind, kw |-> kw]

\* Mutant: the create is run in the request's own task.
handle_create_direct(r, i, kw) ==
    /\ store' = create_comment_or_error(store, kw).store
    /\ UNCHANGED <<pending, active>>

\* handle_create_comment: the create is spawned on the scheduler; the task
\* then waits for the job.
handle_create_comment(r, i, kw) ==
    /\ Spawn(Unit(r, i, "create", kw))
    /\ store' = store

\* The task of request r moves to where it stopped.
Advance(r, b, s) ==
    /\ pc' = [pc EXCEPT ![r] = CASE s.stop = "create" -> "wait"
                                 [] s.stop = "auth"   -> "auth"
                                 [] OTHER             -> "done"]
    /\ body' = [body EXCEPT ![r] = Some(b)]
    /\ idx' = [idx EXCEPT ![r] = s.idx]
    /\ resps' = [resps EXCEPT ![r] = s.resps]
    /\ hlog' = [hlog EXCEPT ![r] = s.hlog]
    /\ http' = [http EXCEPT ![r] = HttpOf(b, s)]
    /\ authorized' = [authorized EXCEPT ![r] = None]
    /\ jobres' = [jobres EXCEPT ![r] = None]
    /\ IF s.stop = "create"
       THEN handle_create_comment(r, s.idx, Parts(b)[s.idx].params)
       ELSE UNCHANGED <<store, pending, active>>
    /\ UNCHANGED <<qcall, scan>>

\* api_endpoint on a request whose body decodes to b (or does not decode).
api_endpoint(r, b) ==
    /\ pc[r] = "idle"
    /\ \E s \in Stops(store, b) : Advance(r, b, s)

\* The envelope request r has in hand.
Current(r) == Parts(body[r][1])[idx[r]]

\* delete_comment_if_authorized once the predicate has returned: on `proceed`
\* the delete is built and spawned and the task waits for the job; otherwise
\* the result is {deleted: False} and the task goes on.
DeleteAfterAuth(r, returned, proceed) ==
    IF proceed
    THEN /\ pc' = [pc EXCEPT ![r] = "wait"]
         /\ authorized' = [authorized EXCEPT ![r] = Some(returned)]
         /\ Spawn(Unit(r, idx[r], "delete", Current(r).params))
         /\ UNCHANGED <<store, qcall, scan, body, idx, resps, hlog, http, jobres>>
    ELSE \E s \in RunParts(store, Parts(body[r][1]), idx[r] + 1,
                           Append(resps[r],
                                  ResultEnvelope(Current(r).id[1], [deleted |-> FALSE])),
                           Append(hlog[r],
                                  LogEntry("delete_comment", Ok(FALSE), Some(returned)))) :
            Advance(r, body[r][1], s)

\* Mutants: the test of `authorized` inverted, and dropped.
delete_comment_inverted(r, auth) == DeleteAfterAuth(r, auth, ~auth)

delete_comment_unchecked(r, auth) == DeleteAfterAuth(r, auth, TRUE)

delete_comment_if_authorized(r, auth) == DeleteAfterAuth(r, auth, auth)

\* src.misc.is_authentic_delete_signal: an opaque predicate; what it may return.
is_authentic_delete_signal == BOOLEAN

\* The predicate returns to the task of request r.
DeleteResume(r) ==
    /\ pc[r] = "auth"
    /\ \E auth \in is_authentic_delete_signal : delete_comment_if_authorized(r, auth)

\* Mutant: the delete handler reports the refusal whatever its job returned.
JobResultNotDeleted(method, o) ==
    IF method = "delete_comment" /\ o.kind = "ok"
    THEN Ok([deleted |-> FALSE])
    ELSE o

\* What the handler returns (or raises) from the outcome of its job.
JobResult(method, o) ==
    IF method = "delete_comment" /\ o.kind = "ok"
    THEN Ok([deleted |-> o.value])
    ELSE o

\* Mutant: the task does not wait for its job and reads the job's result at
\* once, which raises while the job is not done.
JobNoWait(r) ==
    /\ pc[r] = "wait"
    /\ LET part == Current(r)
           o == IF jobres[r] = None THEN Raise("InvalidStateError")
                ELSE JobResult(part.method[1], jobres[r][1])
       IN  \E s \in RunParts(store, Parts(body[r][1]), idx[r] + 1,
                             Append(resps[r], Respond(part.id[1], o)),
                             Append(hlog[r],
                                    LogEntry(part.method[1], o, authorized[r]))) :
              Advance(r, body[r][1], s)

\* Mutant: the handlers of the following elements ran before the job of a
\* create had inserted its row.
JobWaitReadsEarly(r) ==
    /\ pc[r] = "wait"
    /\ jobres[r] # None
    /\ LET part == Current(r)
           o == JobResult(part.method[1], jobres[r][1])
           early == IF part.method[1] = "create_comment" /\ o.kind = "ok"
                    THEN store \ {NewRow(part.params)} ELSE store
       IN  \E s \in RunParts(early, Parts(body[r][1]), idx[r] + 1,
                             Append(resps[r], Respond(part.id[1], o)),
                             Append(hlog[r],
                                    LogEntry(part.method[1], o, authorized[r]))) :
              Advance(r, body[r][1], s)

\* job.wait() returns to the task of request r.
JobWait(r) ==
    /\ pc[r] = "wait"
    /\ jobres[r] # None
    /\ LET part == Current(r)
           o == JobResult(part.method[1], jobres[r][1])
       IN  \E s \in RunParts(store, Parts(body[r][1]), idx[r] + 1,
                             Append(resps[r], Respond(part.id[1], o)),
                             Append(hlog[r],
                                    LogEntry(part.method[1], o, authorized[r]))) :
              Advance(r, body[r][1], s)

\* The writer runs a started unit to its end; the scheduler then starts the
\* next queued unit.
WriterRun ==
    \E u \in active :
        LET x == RunUnit(store, u) IN
        /\ store' = x.store
        /\ jobres' = [jobres EXCEPT ![u.owner] = Some(x.outcome)]
        /\ IF pending # <<>> /\ Cardinality(active \ {u}) < WriterLimit
           THEN /\ active' = (active \ {u}) \cup {Head(pending)}
                /\ pending' = Tail(pending)
           ELSE /\ active' = active \ {u}
                /\ pending' = pending
        /\ UNCHANGED <<qcall, scan, pc, body, idx, resps, hlog, authorized, http>>

\* The transport has sent the response; the task ends.
Reply(r) ==
    /\ pc[r] = "done"
    /\ pc' = [pc EXCEPT ![r] = "idle"]
    /\ body' = [body EXCEPT ![r] = None]
    /\ idx' = [idx EXCEPT ![r] = 0]
    /\ resps' = [resps EXCEPT ![r] = <<>>]
    /\ hlog' = [hlog EXCEPT ![r] = <<>>]
    /\ http' = [http EXCEPT ![r] = None]
    /\ UNCHANGED <<store, qcall, scan, authorized, pending, active, jobres>>

(***************************************************************************)
(* Requests.                                                               *)
(***************************************************************************)
Requests == 1..NReq

Envelope(id, method, kw) ==
    [kind |-> "object", id |-> Some(id), method |-> Some(method), params |-> kw]

Row(cid, text) == CHOOSE r \in CommentRows : r.comment_id = cid /\ r.comment = text

DeleteParams(cid, ch) ==
    [comment_id |-> cid, channel_name |-> Channel[ch], channel_id |-> ch,
     signature |-> "sig"]

\* The mutations and reads concurrent clients send.
GatewayParts ==
    { Envelope(1, "create_comment", CreateParams(Row("c1", "first"))),
      Envelope(2, "create_comment", CreateParams(Row("c4", "replay"))),
      Envelope(3, "delete_comment", DeleteParams("c1", "ch1")),
      Envelope(4, "delete_comment", DeleteParams("c1", "ch2")),
      Envelope(5, "get_comments_by_id", [comment_ids |-> <<"c1">>]) }

GatewayBodies ==
    {[kind |-> "object", value |-> p] : p \in GatewayParts}
    \cup {[kind |-> "array",
           parts |-> <<Envelope(1, "create_comment", CreateParams(Row("c1", "first"))),
                       Envelope(5, "get_comments_by_id", [comment_ids |-> <<"c1">>])>>]}

\* The elements a sequential client puts in a body: malformed ones, an
\* unregistered method, every registered method with arguments that bind and
\* with arguments that do not.
RpcParts ==
    { [kind |-> "scalar"],
      [kind |-> "object", id |-> None, method |-> Some("ping"), params |-> <<>>],
      [kind |-> "object", id |-> Some(10), method |-> None, params |-> <<>>],
      Envelope(11, "no_such_method", <<>>),
      Envelope(12, "ping", <<>>),
      Envelope(13, "get_claim_comments", [claim_id |-> "k1", top_level |-> TRUE]),
      Envelope(14, "get_comment_ids", [claim_id |-> "k1", flattened |-> TRUE]),
      Envelope(15, "get_comments_by_id", [comment_ids |-> <<"c1", "c2">>]),
      Envelope(16, "get_comments_by_id", [comment_ids |-> <<>>]),
      Envelope(17, "get_comments_by_id", [ids |-> <<"c1">>]),
      Envelope(18, "get_channel_from_comment_id", [comment_id |-> "c1"]),
      Envelope(19, "get_channel_from_comment_id", [comment_id |-> "c4"]),
      Envelope(20, "create_comment", CreateParams(Row("c1", "first"))),
      Envelope(21, "create_comment", CreateParams(Row("c2", "reply"))),
      Envelope(22, "create_comment", CreateParams(Row("c4", "replay"))),
      Envelope(23, "create_comment", [comment |-> "", claim_id |-> "k1"]),
      Envelope(24, "create_comment", <<>>),
      Envelope(25, "delete_comment", DeleteParams("c1", "ch1")),
      Envelope(26, "delete_comment", DeleteParams("c1", "ch2")),
      Envelope(27, "delete_comment", [comment_id |-> "c1"]) }

RpcBodies ==
    {[kind |-> "undecodable"], [kind |-> "scalar"]}
    \cup {[kind |-> "object", value |-> p] : p \in RpcParts}
    \cup {[kind |-> "array", parts |-> ps] :
            ps \in UNION {[1..n -> RpcParts] : n \in 0..MaxBatch}}

(***************************************************************************)
(* The server under concurrent clients.                                    *)
(***************************************************************************)
Init ==
    /\ store = {}
    /\ qcall = None
    /\ scan = None
    /\ pc = [r \in Requests |-> "idle"]
    /\ body = [r \in Requests |-> None]
    /\ idx = [r \in Requests |-> 0]
    /\ resps = [r \in Requests |-> <<>>]
    /\ hlog = [r \in Requests |-> <<>>]
    /\ authorized = [r \in Requests |-> None]
    /\ http = [r \in Requests |-> None]
    /\ pending = <<>>
    /\ active = {}
    /\ jobres = [r \in Requests |-> None]

Next ==
    \/ \E r \in Requests : \E b \in GatewayBodies : api_endpoint(r, b)
    \/ \E r \in Requests : DeleteResume(r)
    \/ \E r \in Requests : JobWait(r)
    \/ \E r \in Requests : Reply(r)
    \/ WriterRun

Spec == Init /\ [][Next]_vars

\* The same server with the event loop and the scheduler fair: a task whose
\* await can return is resumed, a started unit is run.
Fairness ==
    /\ WF_vars(WriterRun)
    /\ \A r \in Requests : WF_vars(JobWait(r))
    /\ \A r \in Requests : WF_vars(DeleteResume(r))

SpecFair == Spec /\ Fairness

(***************************************************************************)
(* The server under concurrent readers and writers.                        *)
(***************************************************************************)
\* The reads clients send, one of each read method.
ReaderParts ==
    { Envelope(5, "get_comments_by_id", [comment_ids |-> <<"c1">>]),
      Envelope(6, "ping", <<>>),
      Envelope(7, "get_claim_comments", [claim_id |-> "k1"]),
      Envelope(8, "get_comment_ids", [claim_id |-> "k1"]),
      Envelope(9, "get_channel_from_comment_id", [comment_id |-> "c1"]) }

ReaderBodies ==
    {[kind |-> "object", value |-> p] : p \in ReaderParts}
    \cup {[kind |-> "array",
           parts |-> <<Envelope(8, "get_comment_ids", [claim_id |-> "k1"]),
                       Envelope(9, "get_channel_from_comment_id", [comment_id |-> "c1"])>>]}

NextMixed ==
    \/ \E r \in Requests : \E b \in GatewayBodies \cup ReaderBodies : api_endpoint(r, b)
    \/ \E r \in Requests : DeleteResume(r)
    \/ \E r \in Requests : JobWait(r)
    \/ \E r \in Requests : Reply(r)
    \/ WriterRun

SpecMixed == Init /\ [][NextMixed]_vars

(***************************************************************************)
(* The dispatcher under one client sending every shape of body.            *)
(***************************************************************************)
NextRpc ==
    \/ \E b \in RpcBodies : api_endpoint(1, b)
    \/ DeleteResume(1)
    \/ JobWait(1)
    \/ Reply(1)
    \/ WriterRun

SpecRpc == Init /\ [][NextRpc]_vars

(***************************************************************************)
(* The projection engine called directly on every store.                   *)
(***************************************************************************)
QueryStores == {st \in SUBSET CommentRows : SchemaValid(st)}

OptStrings(S) == {None} \cup {Some(x) : x \in S}

\* The names a caller lists in select_fields and exclude_fields.
ListedNames ==
    {"comment_id", "is_hidden", "signature", "parent_id", "channel_url", "bogus"}

FieldLists ==
    {None} \cup {Some(L) : L \in {S \in SUBSET ListedNames : Cardinality(S) <= MaxFieldList}}

InitQuery ==
    /\ store \in QueryStores
    /\ qcall = None
    /\ scan = None
    /\ pc = [r \in Requests |-> "idle"]
    /\ body = [r \in Requests |-> None]
    /\ idx = [r \in Requests |-> 0]
    /\ resps = [r \in Requests |-> <<>>]
    /\ hlog = [r \in Requests |-> <<>>]
    /\ authorized = [r \in Requests |-> None]
    /\ http = [r \in Requests |-> None]
    /\ pending = <<>>
    /\ active = {}
    /\ jobres = [r \in Requests |-> None]

\* One direct call of comment_list on the store drawn.
Call(a) ==
    /\ qcall = None
    /\ \E o \in comment_list(store, a) : qcall' = Some([args |-> a, out |-> o])
    /\ UNCHANGED <<store, scan, pc, body, idx, resps, hlog, authorized, http,
                   pending, active, jobres>>

\* comment_list with every filter and page.
QueryList ==
    \E c \in OptStrings({"k1", "k2", ""}), p \in OptStrings({"c1"}),
       t \in BOOLEAN, m \in OptStrings({"hidden", "HIDDEN", "visible"}),
       pg \in 0..MaxPage, ps \in 1..MaxPageSize :
        Call([DefaultArgs EXCEPT !.claim_id = c, !.parent_id = p, !.top_level = t,
                                 !.exclude_mode = m, !.page = pg, !.page_size = ps])

\* comment_list with every selection of fields.
QueryProjection ==
    \E sel \in FieldLists, exc \in FieldLists :
        Call([DefaultArgs EXCEPT !.select_fields = sel, !.exclude_fields = exc])

NextQuery == QueryList \/ QueryProjection

SpecQuery == InitQuery /\ [][NextQuery]_vars

(***************************************************************************)
(* The read functions called directly on every store.                      *)
(***************************************************************************)
\* One direct call of read function fn with arguments a, `outs` its possible
\* outcomes.
Read(fn, a, outs) ==
    /\ qcall = None
    /\ \E o \in outs : qcall' = Some([fn |-> fn, args |-> a, out |-> o])
    /\ UNCHANGED <<store, scan, pc, body, idx, resps, hlog, authorized, http,
                   pending, active, jobres>>

\* The comment ids a caller asks for: those of the rows and one no row has.
AskedIds == CommentIds \cup {"c9"}

\* The identifier lists given to get_comments_by_id: none to two ids.
IdLists == UNION {[1..n -> AskedIds] : n \in 0..MaxBatch}

ReadList ==
    \E c \in OptStrings({"k1", "k2"}), p \in OptStrings({"c1"}), t \in BOOLEAN,
       pg \in 1..MaxPage, ps \in 1..MaxPageSize :
        LET a == [DefaultArgs EXCEPT !.claim_id = c, !.parent_id = p,
                                     !.top_level = t, !.page = pg, !.page_size = ps]
        IN  Read("comment_list", a, comment_list(store, a))

ReadClaimComments ==
    \E c \in OptStrings({"k1", "k2"}), p \in OptStrings({"c1"}), t \in BOOLEAN,
       pg \in 1..MaxPage, ps \in 1..MaxPageSize :
        Read("get_claim_comments",
             [claim_id |-> c, parent_id |-> p, top_level |-> t,
              page |-> pg, page_size |-> ps],
             get_claim_comments(store, c, p, t, None, pg, ps))

ReadCommentIds ==
    \E c \in OptStrings({"k1", "k2"}), p \in OptStrings({"c1"}), f \in BOOLEAN,
       pg \in 1..MaxPage, ps \in 1..MaxPageSize :
        Read("get_comment_ids",
             [claim_id |-> c, parent_id |-> p, page |-> pg, page_size |-> ps,
              flattened |-> f],
             get_comment_ids(store, c, p, pg, ps, f))

ReadCommentsById ==
    \E ids \in IdLists :
        Read("get_comments_by_id", [comment_ids |-> ids],
             get_comments_by_id(store, ids))

ReadComment ==
    \E cid \in AskedIds :
        Read("get_comment", [comment_id |-> cid], get_comment(store, cid))

ReadChannel ==
    \E cid \in AskedIds :
        Read("get_channel_from_comment_id", [comment_id |-> cid],
             get_channel_from_comment_id(store, cid))

NextReads ==
    \/ ReadList
    \/ ReadClaimComments
    \/ ReadCommentIds
    \/ ReadCommentsById
    \/ ReadComment
    \/ ReadChannel

SpecReads == InitQuery /\ [][NextReads]_vars

(***************************************************************************)
(* A client reading one listing page by page, the store unchanged.         *)
(***************************************************************************)
\* The listings read: by claim, top-level only or not, of every page size.
ScanArgs ==
    {[DefaultArgs EXCEPT !.claim_id = c, !.top_level = t, !.page_size = ps] :
        c \in OptStrings({"k1", "k2"}), t \in BOOLEAN, ps \in 1..MaxPageSize}

InitPages ==
    /\ store \in QueryStores
    /\ qcall = None
    /\ scan \in {Some([args |-> a, outs |-> <<>>]) : a \in ScanArgs}
    /\ pc = [r \in Requests |-> "idle"]
    /\ body = [r \in Requests |-> None]
    /\ idx = [r \in Requests |-> 0]
    /\ resps = [r \in Requests |-> <<>>]
    /\ hlog = [r \in Requests |-> <<>>]
    /\ authorized = [r \in Requests |-> None]
    /\ http = [r \in Requests |-> None]
    /\ pending = <<>>
    /\ active = {}
    /\ jobres = [r \in Requests |-> None]

\* The client calls comment_list for the next page: page 1, then every page
\* up to the total_pages the first call returned.  Each call is a query of
\* its own, which orders rows of equal timestamp as the engine pleases.
FetchPage ==
    /\ scan # None
    /\ LET a == scan[1].args
           outs == scan[1].outs
           n == Len(outs) + 1
       IN  /\ IF n = 1 THEN TRUE ELSE n <= outs[1].total_pages
           /\ \E o \in comment_list(store, [a EXCEPT !.page = n]) :
                  scan' = Some([args |-> a, outs |-> Append(outs, o.value)])
    /\ UNCHANGED <<store, qcall, pc, body, idx, resps, hlog, authorized, http,
                   pending, active, jobres>>

NextPages == FetchPage

SpecPages == InitPages /\ [][NextPages]_vars

(***************************************************************************)
(* Properties.                                                             *)
(***************************************************************************)
\* The units of work submitted and not yet finished.
Units == Range(pending) \cup active

\* The writer runs unit u in this step.
Executes(u) == u \in active /\ u \notin active' /\ jobres'[u.owner] # None

\* No listing by id finds comment cid, and get_comment on it finds no item.
NotRetrievable(st, cid) ==
    /\ \A o \in get_comments_by_id(st, <<cid>>) :
          o.kind = "ok" /\ o.value.items = <<>>
    /\ get_comment(st, cid) = {Raise("IndexError")}

\* The envelopes request r answers in this step.
Answered(r) == DOMAIN hlog'[r] \ DOMAIN hlog[r]

\* C1: a delete_comment whose authenticity predicate returned false submits no
\* delete unit, leaves the store as it was, and is answered with the result
\* {deleted: false}: no delete unit in the scheduler belongs to a task whose
\* predicate returned false or to an envelope already answered, and the step
\* in which the task answers such an envelope changes no row, spawns no
\* delete, and appends the envelope's response with result {deleted: false}.
C1_UnauthorizedDelete ==
    /\ [](\A u \in Units : u.kind = "delete" =>
              /\ authorized[u.owner] # Some(FALSE)
              /\ u.idx \notin DOMAIN hlog[u.owner])
    /\ [][\A r \in Requests : \A i \in Answered(r) :
             hlog'[r][i].authorized = Some(FALSE) =>
                /\ store' = store
                /\ \A u \in Units' \ Units : u.kind # "delete"
                /\ resps'[r][i] =
                      ResultEnvelope(Parts(body[r][1])[i].id[1], [deleted |-> FALSE])]_vars

\* C1 witness: a request answered a delete the predicate refused, and the
\* target row is still in the store.
C1_Witness ==
    \E r \in Requests :
        /\ pc[r] = "done"
        /\ \E i \in DOMAIN hlog[r] :
              /\ hlog[r][i].authorized = Some(FALSE)
              /\ \E row \in store : row.comment_id = Parts(body[r][1])[i].params.comment_id

\* C2: within a delete_comment request the authorization completes before the
\* mutation begins: every delete unit submitted, queued or running belongs to
\* a task that waits for it after its predicate returned true, and a task that
\* still waits for the predicate has no unit in the scheduler.
C2_AuthorizationFirst ==
    /\ \A u \in Units : u.kind = "delete" =>
          /\ pc[u.owner] = "wait"
          /\ idx[u.owner] = u.idx
          /\ authorized[u.owner] = Some(TRUE)
    /\ \A r \in Requests : pc[r] = "auth" =>
          /\ authorized[r] = None
          /\ \A u \in Units : u.owner # r

\* C2 witness: an authorized delete is running on the writer while another
\* request still waits for its predicate.
C2_Witness ==
    /\ \E u \in active : u.kind = "delete" /\ authorized[u.owner] = Some(TRUE)
    /\ \E r \in Requests : pc[r] = "auth"

\* C3: single-writer discipline: at most one unit is in flight at any instant,
\* and the store changes only in a step in which the writer runs one started
\* unit, to exactly that unit's effect, while no request task moves.
C3_SingleWriter ==
    /\ [](Cardinality(active) <= 1)
    /\ [][store' # store =>
            /\ \E u \in active : Executes(u) /\ store' = RunUnit(store, u).store
            /\ pc' = pc /\ idx' = idx /\ resps' = resps /\ http' = http]_vars

\* C3 witness: one mutation is in flight while another is queued behind it.
C3_Witness ==
    /\ Cardinality(active) = 1
    /\ pending # <<>>
    /\ \E u \in active : u.kind = "create"
    /\ pending[1].kind = "delete"

\* Every element of the batch is a request envelope.
EnvelopeBatch(b) ==
    b.kind = "array" /\ \A i \in DOMAIN b.parts : WellFormed(b.parts[i])

\* C4: batch ordering: the response to a batch of N request envelopes is an
\* array of N response envelopes, the i-th carrying the id of the i-th
\* request, whatever the methods, parameters and outcomes.
C4_BatchOrdering ==
    \A r \in Requests :
        (pc[r] = "done" /\ EnvelopeBatch(body[r][1])) =>
            /\ http[r] # None
            /\ http[r][1].kind = "json"
            /\ http[r][1].array
            /\ Len(http[r][1].content) = Len(body[r][1].parts)
            /\ \A i \in DOMAIN body[r][1].parts :
                  http[r][1].content[i].id = body[r][1].parts[i].id[1]

\* C4 witness: a batch of two envelopes of different ids is answered, the
\* first with an error and the second with a result.
C4_Witness ==
    \E r \in Requests :
        /\ pc[r] = "done"
        /\ EnvelopeBatch(body[r][1])
        /\ Len(body[r][1].parts) = 2
        /\ body[r][1].parts[1].id # body[r][1].parts[2].id
        /\ "error" \in DOMAIN http[r][1].content[1]
        /\ "result" \in DOMAIN http[r][1].content[2]

\* The JSON response the endpoint owes a body: PARSE_ERROR to a body that
\* does not decode, INVALID_REQUEST to a decoded value that is no object and
\* no array, the envelope's response to a request envelope, one response per
\* request and in order to a batch of request envelopes; a JSON response in
\* any other case.
Owed(b, h) ==
    /\ h.kind = "json"
    /\ b.kind = "undecodable" => ~h.array /\ h.content = [error |-> "PARSE_ERROR"]
    /\ b.kind = "scalar" => ~h.array /\ h.content = [error |-> "INVALID_REQUEST"]
    /\ (b.kind = "object" /\ WellFormed(b.value)) =>
          ~h.array /\ h.content.id = b.value.id[1]
    /\ EnvelopeBatch(b) =>
          /\ h.array
          /\ Len(h.content) = Len(b.parts)
          /\ \A i \in DOMAIN b.parts : h.content[i].id = b.parts[i].id[1]

ProtocolErrors ==
    {"PARSE_ERROR", "INVALID_REQUEST", "METHOD_NOT_FOUND", "INVALID_PARAMS", "INTERNAL"}

\* C6: error classification: an unregistered method is answered
\* METHOD_NOT_FOUND and no handler runs; a handler's TypeError or ValueError is
\* answered INVALID_PARAMS; any other exception of a handler is answered
\* INTERNAL; a handler that returns is answered with its result; every error
\* is one of the protocol's codes.
C6_ErrorClassification ==
    \A r \in Requests : \A i \in DOMAIN resps[r] :
        LET part == Parts(body[r][1])[i]
            e == hlog[r][i]
            rsp == resps[r][i]
        IN  /\ part.method[1] \notin METHODS <=> e.outcome = "unregistered"
            /\ e.outcome = "unregistered" =>
                  "error" \in DOMAIN rsp /\ rsp.error = "METHOD_NOT_FOUND"
            /\ e.outcome \in {"TypeError", "ValueError"} =>
                  "error" \in DOMAIN rsp /\ rsp.error = "INVALID_PARAMS"
            /\ e.outcome \notin {"ok", "unregistered", "TypeError", "ValueError"} =>
                  "error" \in DOMAIN rsp /\ rsp.error = "INTERNAL"
            /\ e.outcome = "ok" <=> "result" \in DOMAIN rsp
            /\ "error" \in DOMAIN rsp => rsp.error \in ProtocolErrors

\* C6 witness: one batch holds a create refused with a ValueError and a read
\* that failed with an IndexError.
C6_Witness ==
    \E r \in Requests : \E i, j \in DOMAIN hlog[r] :
        /\ hlog[r][i].outcome = "ValueError"
        /\ hlog[r][j].outcome = "IndexError"

\* The writer runs a delete unit on comment cid in this step.
Deletes(u) == Executes(u) /\ u.kind = "delete"

\* The writer runs a create unit in this step.
Creates(u) == Executes(u) /\ u.kind = "create"

\* C7 as claimed: an authorized delete_comment against an existing row
\* returns {deleted: true} and the row is no longer retrievable by id: when
\* the writer runs a delete unit (submitted only after the predicate returned
\* true) on the id of a row of the store, the job returns true and the row is
\* gone.
C7_Original ==
    [][\A u \in active :
          (Deletes(u) /\ \E row \in store : row.comment_id = u.kw.comment_id) =>
              /\ jobres'[u.owner] = Some(Ok(TRUE))
              /\ NotRetrievable(store', u.kw.comment_id)]_vars

\* C7 as amended: when the writer runs an authorized delete on a row that
\* exists and is attributed to the request's channel_id, the job returns true
\* and the row is no longer retrievable by id; the request is answered
\* {deleted: true}; and a comment not retrievable by id stays so in every step
\* but the creation of a comment with that id.
C7_AuthorizedDelete ==
    /\ [][\A u \in active :
            (Deletes(u) /\ \E row \in store :
                              /\ row.comment_id = u.kw.comment_id
                              /\ row.channel = Some(u.kw.channel_id)) =>
                /\ jobres'[u.owner] = Some(Ok(TRUE))
                /\ NotRetrievable(store', u.kw.comment_id)]_vars
    /\ [][\A r \in Requests :
            (/\ pc[r] = "wait"
             /\ idx[r] \in Answered(r)
             /\ Current(r).method = Some("delete_comment")
             /\ jobres[r] = Some(Ok(TRUE))) =>
                resps'[r][idx[r]] =
                    ResultEnvelope(Current(r).id[1], [deleted |-> TRUE])]_vars
    /\ [][\A cid \in CommentIds :
            (NotRetrievable(store, cid) /\ ~NotRetrievable(store', cid)) =>
                \E u \in active : Creates(u) /\ NewRow(u.kw).comment_id = cid]_vars

\* C7 witness: a request was answered {deleted: true} and the comment it
\* deleted is not retrievable.
C7_Witness ==
    \E r \in Requests :
        /\ pc[r] = "done"
        /\ \E i \in DOMAIN resps[r] :
              /\ Parts(body[r][1])[i].method = Some("delete_comment")
              /\ resps[r][i] =
                    ResultEnvelope(Parts(body[r][1])[i].id[1], [deleted |-> TRUE])
              /\ NotRetrievable(store, Parts(body[r][1])[i].params.comment_id)

\* C8: signature uniqueness: no two comments of the store carry the same
\* non-null signature, and a create whose signature is already on a row of
\* the store fails with the storage conflict and inserts nothing.
C8_SignatureUnique ==
    /\ [](\A x, y \in store :
            (x # y /\ x.signature # None) => x.signature # y.signature)
    /\ [][\A u \in active :
            (/\ Creates(u)
             /\ "signature" \in DOMAIN u.kw
             /\ \E row \in store : row.signature = Some(u.kw.signature)) =>
                /\ store' = store
                /\ jobres'[u.owner][1].kind = "raise"
                /\ jobres'[u.owner][1].exc = "IntegrityError"]_vars

\* C8 witness: the create of c4, whose signature c1 carries, has failed with
\* the conflict while c1 is in the store.
C8_Witness ==
    \E r \in Requests :
        /\ pc[r] = "wait"
        /\ jobres[r] = Some(Raise("IntegrityError"))
        /\ Current(r).params = CreateParams(Row("c4", "replay"))
        /\ Row("c1", "first") \in store
        /\ Row("c4", "replay") \notin store

\* The key set the claim gives an item: the registry keys minus the excluded
\* names, intersected with the included names (an absent list excludes
\* nothing, includes everything).
ClaimedKeys(a) ==
    (FIELDS \ (IF a.exclude_fields = None THEN {} ELSE a.exclude_fields[1]))
    \cap (IF a.select_fields = None THEN FIELDS ELSE a.select_fields[1])

\* C9: projection correctness of comment_list: for every combination of
\* select_fields and exclude_fields (absent, empty or any set of names) the
\* keys of every returned item are the claimed keys whose stored value is not
\* null.
C9_ProjectionKeys ==
    qcall # None =>
        (qcall[1].out.kind = "ok" /\
         \A i \in DOMAIN qcall[1].out.value.items :
            \E row \in store :
                DOMAIN qcall[1].out.value.items[i] =
                    {k \in ClaimedKeys(qcall[1].args) : Cell(k, row) # None})

\* A filter is given when the argument is present and not empty.
Given(o) == o # None /\ o[1] # ""

\* The comments matching the filters of a call, whether or not a channel is
\* attributed to them.
Matching(st, a) ==
    {r \in st :
        /\ Given(a.claim_id) => r.claim_id = a.claim_id[1]
        /\ (Given(a.claim_id) /\ a.top_level) => r.parent = None
        /\ Given(a.parent_id) => r.parent = a.parent_id
        /\ Given(a.exclude_mode) =>
              (r.is_hidden <=> a.exclude_mode[1] \in {"hidden", "Hidden", "HIDDEN"})}

\* C10: pagination arithmetic of comment_list: for page_size > 0 the call
\* raises nothing, total_items is the number of matching comments (anonymous
\* ones included), total_pages is the ceiling of total_items / page_size, and
\* a page beyond total_pages holds no item.
C10_Pagination ==
    qcall # None =>
        LET a == qcall[1].args
            o == qcall[1].out
        IN  /\ o.kind = "ok"
            /\ o.value.total_items = Cardinality(Matching(store, a))
            /\ o.value.total_pages >= 0
            /\ o.value.total_pages * a.page_size >= o.value.total_items
            /\ (o.value.total_pages - 1) * a.page_size < o.value.total_items
            /\ a.page > o.value.total_pages => o.value.items = <<>>

\* C10 witness: a call for a page beyond the last of two pages, over matching
\* comments of which one is anonymous, returned no item.
C10_Witness ==
    /\ qcall # None
    /\ qcall[1].out.kind = "ok"
    /\ qcall[1].out.value.total_pages = 2
    /\ qcall[1].args.page > 2
    /\ qcall[1].out.value.items = <<>>
    /\ \E r \in Matching(store, qcall[1].args) : r.channel = None

\* The positions (page, index) of the items a scan has read.
Positions(outs) ==
    {pi \in (DOMAIN outs) \X (1..MaxPageSize) : pi[2] \in DOMAIN outs[pi[1]].items}

\* Position x comes before position y in the concatenation of the pages.
Before(x, y) == x[1] < y[1] \/ (x[1] = y[1] /\ x[2] < y[2])

TopLevelOnly ==
    /\ qcall # None
    /\ \/ /\ qcall[1].fn \in {"comment_list", "get_claim_comments"}
          /\ qcall[1].args.top_level
       \/ /\ qcall[1].fn = "get_comment_ids"
          /\ qcall[1].args.parent_id = None

\* Every item the last direct call returned has a null parent reference.
NoParentReturned ==
    /\ qcall[1].out.kind = "ok"
    /\ IF qcall[1].fn = "get_comment_ids" /\ qcall[1].args.flattened
       THEN \A i \in DOMAIN qcall[1].out.value.replies :
                qcall[1].out.value.replies[i][2] = None
       ELSE \A i \in DOMAIN qcall[1].out.value.items :
                "parent_id" \notin DOMAIN qcall[1].out.value.items[i]

\* The example of the threading invariant: c1 top-level on claim k1, c2 a
\* reply to c1, and get_claim_comments(claim_id = k1, top_level = true).
ThreadExample ==
    /\ qcall # None
    /\ qcall[1].fn = "get_claim_comments"
    /\ qcall[1].args.claim_id = Some("k1")
    /\ qcall[1].args.parent_id = None
    /\ qcall[1].args.top_level
    /\ qcall[1].args.page = 1
    /\ store = {Row("c1", "first"), Row("c2", "reply")}

\* C12 as claimed: threading invariant: every top-level-only query, whatever
\* its other parameters and with or without a claim_id, returns only items
\* with a null parent reference.
C12_Original == TopLevelOnly => NoParentReturned

\* C12 as amended: every top-level-only query that gives a claim_id returns
\* only items with a null parent reference; in the example the listing of k1
\* returns exactly c1.
C12_TopLevel ==
    /\ (TopLevelOnly /\ TruthyStr(qcall[1].args.claim_id)) => NoParentReturned
    /\ ThreadExample =>
          /\ qcall[1].out.kind = "ok"
          /\ Len(qcall[1].out.value.items) = 1
          /\ qcall[1].out.value.items[1].comment_id = "c1"

\* C12 witness: the example call has returned.
C12_Witness == ThreadExample /\ qcall[1].out.value.total_items = 1

\* The last direct call is get_comment_ids(claim_id = c, flattened = true),
\* with no parent_id.
FlattenedListing ==
    /\ qcall # None
    /\ qcall[1].fn = "get_comment_ids"
    /\ qcall[1].args.flattened
    /\ qcall[1].args.claim_id # None
    /\ qcall[1].args.parent_id = None

\* C13: scenario B, the flattened id listing: on a store holding c1
\* (top-level, claim k1, timestamp 100) and c2 (reply to c1, timestamp 200)
\* get_comment_ids(claim_id = k1, flattened = true) returns items [c2, c1]
\* and replies [(c2, c1), (c1, null)]; in general the flattened result counts
\* every comment of the claim, replies included, and pairs each listed id
\* with its parent in the same order.
C13_FlattenedIds ==
    FlattenedListing =>
        LET v == qcall[1].out.value IN
        /\ qcall[1].out.kind = "ok"
        /\ v.total_items =
              Cardinality({r \in store : r.claim_id = qcall[1].args.claim_id[1]})
        /\ DOMAIN v.replies = DOMAIN v.items
        /\ \A i \in DOMAIN v.items :
              \E r \in store : /\ r.comment_id = v.items[i]
                               /\ v.replies[i] = <<r.comment_id, r.parent>>
        /\ (/\ store = {Row("c1", "first"), Row("c2", "reply")}
            /\ qcall[1].args.claim_id = Some("k1")
            /\ qcall[1].args.page = 1
            /\ qcall[1].args.page_size >= 2) =>
                /\ v.items = <<"c2", "c1">>
                /\ v.replies = << <<"c2", Some("c1")>>, <<"c1", None>> >>

\* C14: scenario D, the empty identifier set: on any store
\* get_comments_by_id(comment_ids = []) raises nothing and returns an
\* envelope with page_size 0, total_items 0, total_pages 0 and no item.
C14_EmptyIds ==
    (/\ qcall # None
     /\ qcall[1].fn = "get_comments_by_id"
     /\ qcall[1].args.comment_ids = <<>>) =>
        /\ qcall[1].out.kind = "ok"
        /\ qcall[1].out.value.page_size = 0
        /\ qcall[1].out.value.total_items = 0
        /\ qcall[1].out.value.total_pages = 0
        /\ qcall[1].out.value.items = <<>>

\* Envelope i of request r asks for the channel of a comment no row of the
\* store has.
MissingRowFetch(r, i) ==
    LET part == Parts(body'[r][1])[i] IN
    /\ part.method = Some("get_channel_from_comment_id")
    /\ DOMAIN part.params = {"comment_id"}
    /\ \A row \in store : row.comment_id # part.params.comment_id

\* C15: the single-item fetch of a missing row: get_channel_from_comment_id
\* for a comment_id that matches no row returns no value, and the dispatcher
\* answers it with INVALID_PARAMS or a dedicated not-found code, not with a
\* result and not with INTERNAL.
C15_MissingRow ==
    [][\A r \in Requests : \A i \in Answered(r) :
          MissingRowFetch(r, i) =>
              /\ "result" \notin DOMAIN resps'[r][i]
              /\ "error" \in DOMAIN resps'[r][i]
              /\ resps'[r][i].error \in {"INVALID_PARAMS", "NOT_FOUND"}]_vars

\* C16: the response envelope invariant: every response process_json has
\* built carries jsonrpc "2.0", the id of the envelope it answers, and exactly
\* one of the keys result and error.
C16_EnvelopeShape ==
    \A r \in Requests : \A i \in DOMAIN resps[r] :
        LET e == resps[r][i] IN
        /\ {"jsonrpc", "id"} \subseteq DOMAIN e
        /\ e.jsonrpc = "2.0"
        /\ e.id = Parts(body[r][1])[i].id[1]
        /\ ("result" \in DOMAIN e) # ("error" \in DOMAIN e)
        /\ DOMAIN e \subseteq {"jsonrpc", "id", "result", "error"}

\* C16 witness: a batch answered with a result for one envelope and an error
\* raised by the handler of the other.
C16_Witness ==
    /\ pc[1] = "done"
    /\ Len(resps[1]) = 2
    /\ "result" \in DOMAIN resps[1][1]
    /\ "error" \in DOMAIN resps[1][2]
    /\ hlog[1][2].outcome = "TypeError"

\* The units of work of request r submitted and not yet finished.
UnitsOf(r) == {u \in Units : u.owner = r}

\* C17: result routing of the write gateway: a caller stays suspended from
\* the submission of its unit until the unit has finished (a task that is not
\* waiting owns no unit; a waiting task owns exactly one unit, for the
\* envelope in hand, or holds its job's outcome); the writer hands the
\* outcome of a unit to its owner only; the waiting task answers its envelope
\* with the outcome of its own unit; and under fair scheduling every
\* submitted unit is eventually executed and its caller gets a response.
C17_ResultRouting ==
    /\ [](\A r \in Requests :
            /\ pc[r] # "wait" => UnitsOf(r) = {}
            /\ pc[r] = "wait" =>
                  IF jobres[r] = None
                  THEN \E u \in UnitsOf(r) : UnitsOf(r) = {u} /\ u.idx = idx[r]
                  ELSE UnitsOf(r) = {})
    /\ [][/\ \A u \in active :
               Executes(u) =>
                   /\ jobres'[u.owner] = Some(RunUnit(store, u).outcome)
                   /\ \A r \in Requests \ {u.owner} : jobres'[r] = jobres[r]
          /\ \A r \in Requests :
               (pc[r] = "wait" /\ idx[r] \in Answered(r)) =>
                   /\ jobres[r] # None
                   /\ resps'[r][idx[r]] =
                         Respond(Current(r).id[1],
                                 JobResult(Current(r).method[1], jobres[r][1]))]_vars
    /\ \A r \in Requests : (UnitsOf(r) # {}) ~> (UnitsOf(r) = {} /\ jobres[r] # None)
    /\ \A r \in Requests : (pc[r] = "wait") ~> (pc[r] = "done")

\* C17 witness: one caller has its response, from the outcome of its own
\* create, while the unit of the other caller is still queued or running.
C17_Witness ==
    \E r, q \in Requests :
        /\ pc[r] = "done"
        /\ hlog[r] # <<>>
        /\ hlog[r][1].method = "create_comment"
        /\ pc[q] = "wait"
        /\ jobres[q] = None
        /\ UnitsOf(q) # {}

\* The methods that only read.
ReadMethods == METHODS \ {"create_comment", "delete_comment"}

\* Every envelope of body b calls a read method.
ReadOnly(b) ==
    \A i \in DOMAIN Parts(b) :
        WellFormed(Parts(b)[i]) /\ Parts(b)[i].method[1] \in ReadMethods

\* C18: reads are pure with respect to the store and the writer: every unit
\* of work in the scheduler was submitted for a create or a delete envelope,
\* and the step that takes a request of read envelopes only answers all of
\* them at once, waiting for nothing, and leaves the comment table, the queue
\* and the running units as they were, whatever is queued or in flight.
C18_ReadPurity ==
    /\ [](\A u \in Units :
            Parts(body[u.owner][1])[u.idx].method[1] \notin ReadMethods)
    /\ [][\A r \in Requests :
            (pc[r] = "idle" /\ pc'[r] # "idle" /\ ReadOnly(body'[r][1])) =>
                /\ store' = store
                /\ pending' = pending
                /\ active' = active
                /\ pc'[r] = "done"
                /\ http'[r] # None
                /\ Len(resps'[r]) = Len(Parts(body'[r][1]))]_vars

\* C18 witness: a batch of two reads is answered while the unit of another
\* request is queued or in flight.
C18_Witness ==
    \E r, q \in Requests :
        /\ pc[r] = "done"
        /\ ReadOnly(body[r][1])
        /\ Len(resps[r]) = 2
        /\ pc[q] = "wait"
        /\ UnitsOf(q) # {}

\* Body b is a batch with an element that is not a well-formed envelope.
Malformed(b) ==
    b.kind = "array" /\ \E k \in DOMAIN b.parts : ~WellFormed(b.parts[k])

\* The position of the first such element.
FirstMalformed(b) ==
    CHOOSE k \in DOMAIN b.parts :
        ~WellFormed(b.parts[k]) /\ \A j \in 1..(k - 1) : WellFormed(b.parts[j])

\* What the element before position k did is applied in store st.
AppliedBefore(r, k, st) ==
    k > 1 =>
        LET part == Parts(body'[r][1])[k - 1]
            h == hlog'[r][k - 1]
        IN  /\ (h.method = "create_comment" /\ h.outcome = "ok") =>
                  NewRow(part.params) \in st
            /\ (h.method = "delete_comment" /\ h.outcome = "ok"
                   /\ resps'[r][k - 1].result.deleted) =>
                  \A row \in st : row.comment_id # part.params.comment_id

\* C19: batch atomicity of responses versus effects: when element k of a
\* batch is not a well-formed envelope the task ends with the single error
\* object INVALID_REQUEST and no array, having run the handlers of the
\* elements before k and of no other; no unit is ever submitted for an element
\* from k on; and the step that ends the task leaves the store as it was, with
\* the mutation of the element before k applied.
C19_BatchAbort ==
    /\ [](\A r \in Requests :
            (body[r] # None /\ Malformed(body[r][1])) =>
                LET k == FirstMalformed(body[r][1]) IN
                /\ idx[r] <= k
                /\ \A u \in UnitsOf(r) : u.idx < k
                /\ pc[r] = "done" =>
                      /\ http[r] # None
                      /\ ~http[r][1].array
                      /\ http[r][1].content = [error |-> "INVALID_REQUEST"]
                      /\ Len(hlog[r]) = k - 1
                      /\ Len(resps[r]) = k - 1)
    /\ [][\A r \in Requests :
            (pc[r] # "done" /\ pc'[r] = "done" /\ Malformed(body'[r][1])) =>
                /\ store' = store
                /\ AppliedBefore(r, FirstMalformed(body'[r][1]), store')]_vars

\* C19 witness: the batch of a create of c1 and a scalar has ended with the
\* error object, the response of the create dropped and c1 in the store.
C19_Witness ==
    /\ pc[1] = "done"
    /\ body[1] # None
    /\ Malformed(body[1][1])
    /\ Len(body[1][1].parts) = 2
    /\ body[1][1].parts[2] = [kind |-> "scalar"]
    /\ Len(resps[1]) = 1
    /\ hlog[1][1].method = "create_comment"
    /\ hlog[1][1].outcome = "ok"
    /\ Row("c1", "first") \in store
    /\ http[1][1].content = [error |-> "INVALID_REQUEST"]

\* Envelope i of request r is get_comments_by_id on a list naming comment cid.
ReadsById(r, i, cid) ==
    /\ i \in DOMAIN Parts(body[r][1])
    /\ WellFormed(Parts(body[r][1])[i])
    /\ Parts(body[r][1])[i].method[1] = "get_comments_by_id"
    /\ DOMAIN Parts(body[r][1])[i].params = {"comment_ids"}
    /\ cid \in Range(Parts(body[r][1])[i].params.comment_ids)

\* Response e is a listing with an item for comment cid.
Lists(e, cid) ==
    /\ "result" \in DOMAIN e
    /\ \E j \in DOMAIN e.result.items : e.result.items[j].comment_id = cid

====
